---- MODULE Spec2Model ----
(***************************************************************************)
(* The lexer of rtsc_parser (crates/rtsc_parser/src/lib.rs).               *)
(*                                                                         *)
(* A source text is a sequence of characters, each a one-character string  *)
(* (U+200C, U+2028 and U+2029 are written by name).  The Lexer struct is   *)
(* the record [pos, last_pos, errors, panic]: pos is the number of         *)
(* characters the `chars` iterator has yielded (Lexer::offset), panic is   *)
(* the message of the panic that unwound the call ("" while none did).     *)
(* Every scanning function is an operator from (source, lexer) to the      *)
(* lexer it leaves and what it returns; the lex loop is the state machine. *)
(* A Number value is the f64 the conversion returns, written by its exact   *)
(* binary value m * 2^e (m the significant bits): parse::<f64> rounds to   *)
(* the nearest f64 and from_str_radix works on 64-bit integers.            *)
(***************************************************************************)
EXTENDS Naturals, Integers, Sequences, FiniteSets, TLC

VARIABLES source, pos, last_pos, errors, tokens, status, panic, steps

vars == <<source, pos, last_pos, errors, tokens, status, panic, steps>>

(***************************************************************************)
(* Bounds of the model.                                                    *)
(***************************************************************************)
MaxLen == 4

MaxLenComment == 5

MaxLenUnterminated == 6

\* Longest body of the long hexadecimal literals.
MaxLenHex == 17

(***************************************************************************)
(* Characters.                                                             *)
(***************************************************************************)
None == "None"

Digits == {"0", "1", "2", "3", "4", "5", "6", "7", "8", "9"}

LowerLetters == {"a", "b", "c", "d", "e", "f", "g", "h", "i", "j", "k", "l", "m",
                 "n", "o", "p", "q", "r", "s", "t", "u", "v", "w", "x", "y", "z"}

UpperLetters == {"A", "B", "C", "D", "E", "F", "G", "H", "I", "J", "K", "L", "M",
                 "N", "O", "P", "Q", "R", "S", "T", "U", "V", "W", "X", "Y", "Z"}

\* The characters with the Unicode White_Space property (char::is_whitespace).
\* A character without a printable ASCII form is written by its code point.
WhiteSpace ==
    {"\t", "\n", "U+000B", "U+000C", "\r", " ", "U+0085", "U+00A0", "U+1680",
     "U+2000", "U+2001", "U+2002", "U+2003", "U+2004", "U+2005", "U+2006", "U+2007",
     "U+2008", "U+2009", "U+200A", "U+2028", "U+2029", "U+202F", "U+205F", "U+3000"}

is_whitespace(c) == c \in WhiteSpace

is_ascii_digit(c) == c \in Digits

is_ident_start(ch) == ch \in LowerLetters \/ ch \in UpperLetters \/ ch = "$" \/ ch = "_"

is_ident_part(ch) ==
    \/ ch \in LowerLetters
    \/ ch \in UpperLetters
    \/ ch = "$"
    \/ ch = "_"
    \/ is_ascii_digit(ch)
    \/ ch = "U+200C"

is_line_terminator(ch) == ch = "\n" \/ ch = "\r" \/ ch = "U+2028" \/ ch = "U+2029"

DigitVal(c) ==
    CASE c = "0" -> 0 [] c = "1" -> 1 [] c = "2" -> 2 [] c = "3" -> 3 [] c = "4" -> 4
      [] c = "5" -> 5 [] c = "6" -> 6 [] c = "7" -> 7 [] c = "8" -> 8 [] c = "9" -> 9
      [] c \in {"a", "A"} -> 10 [] c \in {"b", "B"} -> 11 [] c \in {"c", "C"} -> 12
      [] c \in {"d", "D"} -> 13 [] c \in {"e", "E"} -> 14 [] c \in {"f", "F"} -> 15
      [] OTHER -> 99

(***************************************************************************)
(* Span, Token, diagnostics.                                               *)
(***************************************************************************)
Span(start, end) == [start |-> start, end |-> end]

\* An f64 is written by its exact binary value: class "finite" with sign neg,
\* bits m (most significant first, first and last bit 1, <<>> for zero) and
\* exponent e stands for the binary integer m times 2^e; class "inf" and "nan"
\* are the non-finite values.  A failed conversion carries the Debug text of
\* its error in err.
NoNum == [ok |-> FALSE, err |-> "", class |-> "", neg |-> FALSE, m |-> <<>>, e |-> 0]

Err(debug) == [NoNum EXCEPT !.err = debug]

Kind(kind, sub) == [kind |-> kind, sub |-> sub, value |-> <<>>, raw |-> <<>>, num |-> NoNum]

NumberKind(num) == [Kind("Number", "") EXCEPT !.num = num]

StringKind(value, raw) == [Kind("String", "") EXCEPT !.value = value, !.raw = raw]

WordKind(sub, text) == [Kind("Word", sub) EXCEPT !.value = text]

Token(kind, span) ==
    [kind |-> kind.kind, sub |-> kind.sub, value |-> kind.value, raw |-> kind.raw,
     num |-> kind.num, span |-> span]

Diagnostic(kind, ch, span) == [kind |-> kind, ch |-> ch, span |-> span]

(***************************************************************************)
(* The cursor.                                                             *)
(***************************************************************************)
NewLexer == [pos |-> 0, last_pos |-> 0, errors |-> <<>>, panic |-> ""]

At(s, i) == IF i >= 1 /\ i <= Len(s) THEN s[i] ELSE None

cur(s, lx) == At(s, lx.pos + 1)

peek(s, lx) == At(s, lx.pos + 2)

next(s, lx) == [lx EXCEPT !.pos = IF lx.pos < Len(s) THEN lx.pos + 1 ELSE lx.pos]

offset(lx) == lx.pos

\* The committed end computed one character past the cursor.
commit_ahead(lx) == [lx EXCEPT !.last_pos = offset(lx) + 1]

commit(lx) == [lx EXCEPT !.last_pos = offset(lx)]

\* A diagnostic inserted at the front of the vector instead of pushed.
push_error_front(lx, kind, ch) ==
    [lx EXCEPT !.errors = <<Diagnostic(kind, ch, Span(lx.last_pos, offset(lx)))>> \o @]

push_error(lx, kind, ch) ==
    [lx EXCEPT !.errors = Append(@, Diagnostic(kind, ch, Span(lx.last_pos, offset(lx))))]

push_span_error(lx, kind, start) ==
    [lx EXCEPT !.errors = Append(@, Diagnostic(kind, "", Span(start, offset(lx))))]

raise(lx, msg) == [lx EXCEPT !.panic = msg]

RECURSIVE skip_whitespace(_, _)
skip_whitespace(s, lx) ==
    LET c == cur(s, lx) IN
    IF c # None /\ is_whitespace(c) THEN skip_whitespace(s, next(s, lx)) ELSE lx

(***************************************************************************)
(* Identifiers and keywords.                                               *)
(***************************************************************************)
Keywords == {
        <<"b", "r", "e", "a", "k">>,
        <<"c", "a", "s", "e">>,
        <<"c", "a", "t", "c", "h">>,
        <<"c", "l", "a", "s", "s">>,
        <<"c", "o", "n", "t", "i", "n", "u", "e">>,
        <<"c", "o", "n", "s", "t">>,
        <<"d", "e", "b", "u", "g", "g", "e", "r">>,
        <<"d", "e", "f", "a", "u", "l", "t">>,
        <<"d", "e", "l", "e", "t", "e">>,
        <<"d", "o">>,
        <<"e", "l", "s", "e">>,
        <<"e", "x", "p", "o", "r", "t">>,
        <<"e", "x", "t", "e", "n", "d", "s">>,
        <<"f", "i", "n", "a", "l", "l", "y">>,
        <<"f", "o", "r">>,
        <<"f", "u", "n", "c", "t", "i", "o", "n">>,
        <<"i", "f">>,
        <<"i", "m", "p", "o", "r", "t">>,
        <<"i", "n">>,
        <<"i", "n", "s", "t", "a", "n", "c", "e", "o", "f">>,
        <<"n", "e", "w">>,
        <<"r", "e", "t", "u", "r", "n">>,
        <<"l", "e", "t">>,
        <<"s", "u", "p", "e", "r">>,
        <<"s", "w", "i", "t", "c", "h">>,
        <<"t", "h", "i", "s">>,
        <<"t", "h", "r", "o", "w">>,
        <<"t", "r", "y">>,
        <<"t", "y", "p", "e", "o", "f">>,
        <<"v", "a", "r">>,
        <<"v", "o", "i", "d">>,
        <<"w", "h", "i", "l", "e">>,
        <<"w", "i", "t", "h">>,
        <<"y", "i", "e", "l", "d">>
    }

RECURSIVE ident_loop(_, _, _)
ident_loop(s, lx, ident) ==
    LET c == cur(s, lx)
        l1 == next(s, lx)
    IN  IF c = None THEN [lx |-> lx, ident |-> ident]
        ELSE IF is_ident_part(c) THEN ident_loop(s, commit(l1), Append(ident, c))
        ELSE IF is_whitespace(c) THEN [lx |-> l1, ident |-> ident]
        ELSE ident_loop(s, push_error(l1, "UnexpectedToken", c), ident)

\* A matcher that recognises the literal `true` as WordKind::True.
match_keyword_literals(r) ==
    [lx |-> r.lx,
     kind |-> IF r.ident = <<"t", "r", "u", "e">> THEN WordKind("True", r.ident)
              ELSE IF r.ident \in Keywords THEN WordKind("Keyword", r.ident)
              ELSE WordKind("Identifier", r.ident)]

match_keyword(r) ==
    [lx |-> r.lx,
     kind |-> IF r.ident \in Keywords THEN WordKind("Keyword", r.ident)
              ELSE WordKind("Identifier", r.ident)]

read_identifier(s, lx, head) == match_keyword(ident_loop(s, lx, <<head>>))

(***************************************************************************)
(* Numeric conversion: str::parse::<f64> and isize::from_str_radix.        *)
(***************************************************************************)
RECURSIVE DecimalDigits(_)
DecimalDigits(n) == IF n = 0 THEN <<>> ELSE Append(DecimalDigits(n \div 10), n % 10)

DropLeadingZeros(ds) ==
    IF \A i \in 1..Len(ds) : ds[i] = 0 THEN <<>>
    ELSE SubSeq(ds, CHOOSE i \in 1..Len(ds) : ds[i] # 0 /\ \A j \in 1..(i - 1) : ds[j] = 0, Len(ds))

DropTrailingZeros(ds) ==
    IF \A i \in 1..Len(ds) : ds[i] = 0 THEN <<>>
    ELSE SubSeq(ds, 1, CHOOSE i \in 1..Len(ds) : ds[i] # 0 /\ \A j \in (i + 1)..Len(ds) : ds[j] = 0)

Significant(ds) == DropTrailingZeros(DropLeadingZeros(ds))

\* The finite float with sign neg and value (the binary integer bits) * 2^e.
Finite(neg, bits, e) ==
    [ok |-> TRUE, err |-> "", class |-> "finite", neg |-> neg, m |-> Significant(bits),
     e |-> IF Significant(bits) = <<>> THEN 0
           ELSE e + Len(DropLeadingZeros(bits)) - Len(Significant(bits))]

Infinity(neg) == [ok |-> TRUE, err |-> "", class |-> "inf", neg |-> neg, m |-> <<>>, e |-> 0]

NaN(neg) == [ok |-> TRUE, err |-> "", class |-> "nan", neg |-> neg, m |-> <<>>, e |-> 0]

DigitVals(ds) == [i \in 1..Len(ds) |-> DigitVal(ds[i])]

RECURSIVE DigitsValue(_, _)
DigitsValue(ds, radix) ==
    IF ds = <<>> THEN 0
    ELSE DigitsValue(SubSeq(ds, 1, Len(ds) - 1), radix) * radix + DigitVal(ds[Len(ds)])

AllDigits(ds, radix) == \A i \in 1..Len(ds) : DigitVal(ds[i]) < radix

FirstIndex(text, S) ==
    IF \E i \in 1..Len(text) : text[i] \in S
    THEN CHOOSE i \in 1..Len(text) : text[i] \in S /\ \A j \in 1..(i - 1) : text[j] \notin S
    ELSE 0

\* Bit k (0 the most significant) of the `width` bits of the digit d.
BitOf(d, width, k) == (d \div 2^(width - 1 - k)) % 2

\* bits + 1.
Increment(bits) ==
    IF \A i \in 1..Len(bits) : bits[i] = 1 THEN <<1>> \o [i \in 1..Len(bits) |-> 0]
    ELSE [i \in 1..Len(bits) |->
            IF \A j \in (i + 1)..Len(bits) : bits[j] = 1 THEN 1 - bits[i] ELSE bits[i]]

\* The leading p bits of a magnitude rounded to nearest, ties to even; sticky
\* tells that the exact magnitude has a nonzero part below the last bit.
round_bits(bits, p, sticky) ==
    IF p < 0 THEN <<>>
    ELSE IF p >= Len(bits) THEN bits
    ELSE IF bits[p + 1] = 1
            /\ (sticky \/ (p > 0 /\ bits[p] = 1) \/ \E i \in (p + 2)..Len(bits) : bits[i] = 1)
    THEN Increment(SubSeq(bits, 1, p))
    ELSE SubSeq(bits, 1, p)

\* The bits an f64 keeps of bits * 2^e: 53, fewer in the subnormal range,
\* whose last place is 2^-1074.
Precision(bits, e) == IF e + Len(bits) + 1074 < 53 THEN e + Len(bits) + 1074 ELSE 53

Dropped(bits, p) == IF p >= Len(bits) THEN 0 ELSE Len(bits) - p

\* kept * 2^e as an f64: infinity from 2^1024 on.
Boxed(neg, kept, e) ==
    IF kept = <<>> THEN Finite(neg, <<>>, 0)
    ELSE IF e + Len(kept) - 1 > 1023 THEN Infinity(neg)
    ELSE Finite(neg, kept, e)

\* The f64 nearest to bits * 2^e (bits without leading zero).
nearest_f64(neg, bits, e, sticky) ==
    Boxed(neg, round_bits(bits, Precision(bits, e), sticky), e + Dropped(bits, Precision(bits, e)))

\* Natural numbers of any size: sequences of 16-bit limbs, most significant first.
Pow5(k) ==
    CASE k = 0 -> 1 [] k = 1 -> 5 [] k = 2 -> 25 [] k = 3 -> 125 [] k = 4 -> 625
      [] k = 5 -> 3125 [] OTHER -> 15625

\* The limbs a..b of X times k, plus the carry c from the limbs below them: the
\* lower half first, its carry into the upper half.  (The carry is never
\* negative: the test on it makes TLC work out the lower half before the upper.)
RECURSIVE MulRange(_, _, _, _, _)
MulUpper(low, X, a, b, k) ==
    IF low.c >= 0 THEN [MulRange(X, a, b, low.c, k) EXCEPT !.q = @ \o low.q] ELSE low

MulRange(X, a, b, c, k) ==
    IF a > b THEN [q |-> <<>>, c |-> c]
    ELSE IF a = b THEN [q |-> <<(X[a] * k + c) % 65536>>, c |-> (X[a] * k + c) \div 65536]
    ELSE MulUpper(MulRange(X, (a + b) \div 2 + 1, b, c, k), X, a, (a + b) \div 2, k)

Carried(r) == IF r.c = 0 THEN r.q ELSE <<r.c>> \o r.q

\* X * k + c for k and c below 2^15.
MulSmall(X, k, c) == Carried(MulRange(X, 1, Len(X), c, k))

\* A multiple of 6 near half of k > 6: a power 5^k is applied as its two parts.
HalfPower(k) == 6 * ((((k - 1) \div 6) + 1) \div 2)

\* X * 5^k, by factors of at most 5^6.  (Len(X) >= 0 always holds: with it TLC
\* works out X before the factors still to come.)
RECURSIVE MulPow5(_, _)
MulPow5(X, k) ==
    IF k <= 6 \/ Len(X) < 0 THEN MulSmall(X, Pow5(k), 0)
    ELSE MulPow5(MulPow5(X, HalfPower(k)), k - HalfPower(k))

\* The limbs a..b of X divided by d, after the remainder r of the limbs above
\* them: the upper half first, its remainder into the lower half.  (The test
\* on the remainder, never negative, makes TLC work out the upper half first.)
RECURSIVE DivRange(_, _, _, _, _)
DivLower(high, X, a, b, d) ==
    IF high.r >= 0 THEN [DivRange(X, a, b, high.r, d) EXCEPT !.q = high.q \o @] ELSE high

DivRange(X, a, b, r, d) ==
    IF a > b THEN [q |-> <<>>, r |-> r]
    ELSE IF a = b THEN [q |-> <<(r * 65536 + X[a]) \div d>>, r |-> (r * 65536 + X[a]) % d]
    ELSE DivLower(DivRange(X, a, (a + b) \div 2, r, d), X, (a + b) \div 2 + 1, b, d)

Quotient(r, sticky) == [q |-> DropLeadingZeros(r.q), sticky |-> sticky \/ r.r # 0]

\* v.q divided by d < 2^15, rounded down; sticky records a remainder.
DivSmall(v, d) == Quotient(DivRange(v.q, 1, Len(v.q), 0, d), v.sticky)

\* v.q divided by 5^k, rounded down, by factors of at most 5^6.  (Len(v.q) >= 0
\* always holds, as above.)
RECURSIVE DivPow5(_, _)
DivPow5(v, k) ==
    IF k <= 6 \/ Len(v.q) < 0 THEN DivSmall(v, Pow5(k))
    ELSE DivPow5(DivPow5(v, HalfPower(k)), k - HalfPower(k))

\* The value of the decimal digits i..j of ds (at most four of them).
RECURSIVE DigitsFrom(_, _, _)
DigitsFrom(ds, i, j) == IF i > j THEN 0 ELSE DigitsFrom(ds, i, j - 1) * 10 + ds[j]

Pow10(k) == CASE k = 1 -> 10 [] k = 2 -> 100 [] k = 3 -> 1000 [] OTHER -> 10000

LastOfGroup(ds, i) == IF i + 3 > Len(ds) THEN Len(ds) ELSE i + 3

\* The limbs of the decimal digits ds, read from the left four digits at a
\* time; X is the number read before the digit i.
RECURSIVE LimbsFrom(_, _, _)
LimbsFrom(ds, i, X) ==
    IF i > Len(ds) THEN X
    ELSE IF Len(X) >= 0
    THEN LimbsFrom(ds, LastOfGroup(ds, i) + 1,
                   MulSmall(X, Pow10(LastOfGroup(ds, i) - i + 1), DigitsFrom(ds, i, LastOfGroup(ds, i))))
    ELSE X

Limbs(ds) == LimbsFrom(ds, 1, <<>>)

LimbBits(X) == [i \in 1..(16 * Len(X)) |-> BitOf(X[((i - 1) \div 16) + 1], 16, (i - 1) % 16)]

\* Zero limbs appended before a division by 5^k, enough to leave 64 bits of quotient.
ZeroLimbs(k) == (3 * k) \div 16 + 5

\* ds * 10^q as the limbs v.q times 2^ScaledExponent(q), exactly but for the part
\* below the last limb, which sticky stands for.
ScaledValue(ds, q) ==
    IF q >= 0 THEN [q |-> MulPow5(Limbs(ds), q), sticky |-> FALSE]
    ELSE DivPow5([q |-> Limbs(ds) \o [i \in 1..ZeroLimbs(0 - q) |-> 0], sticky |-> FALSE], 0 - q)

ScaledExponent(q) == IF q >= 0 THEN q ELSE q - 16 * ZeroLimbs(0 - q)

nearest_scaled(neg, v, e) == nearest_f64(neg, DropLeadingZeros(LimbBits(v.q)), e, v.sticky)

\* The f64 nearest to the decimal (the integer ds) * 10^q, ties to even: a
\* decimal of 10^309 or more is infinite whatever its digits, one below
\* 10^-324 is zero.
round_f64(neg, ds, q) ==
    IF DropLeadingZeros(ds) = <<>> THEN Finite(neg, <<>>, 0)
    ELSE IF q + Len(DropLeadingZeros(ds)) - 1 > 308 THEN Infinity(neg)
    ELSE IF q + Len(DropLeadingZeros(ds)) - 1 < 0 - 324 THEN Finite(neg, <<>>, 0)
    ELSE nearest_scaled(neg, ScaledValue(DropLeadingZeros(ds), q), ScaledExponent(q))

\* The float of the natural number m times 10^e.
Norm(m, e) == round_f64(FALSE, DecimalDigits(m), e)

\* The exponent digits read from the left, a digit being added only while the
\* exponent is below 65536 (0x10000).
RECURSIVE ExponentUpTo(_, _)
ExponentUpTo(ds, i) ==
    IF i = 0 THEN 0
    ELSE IF ExponentUpTo(ds, i - 1) < 65536 THEN 10 * ExponentUpTo(ds, i - 1) + ds[i]
    ELSE ExponentUpTo(ds, i - 1)

\* Leading zeros leave the exponent at 0 and six further digits reach 65536.
ExponentValue(expDs) ==
    ExponentUpTo(DropLeadingZeros(DigitVals(expDs)),
                 IF Len(DropLeadingZeros(DigitVals(expDs))) > 6 THEN 6
                 ELSE Len(DropLeadingZeros(DigitVals(expDs))))

LowerOf(c) ==
    CASE c = "I" -> "i" [] c = "N" -> "n" [] c = "F" -> "f" [] c = "T" -> "t"
      [] c = "Y" -> "y" [] c = "A" -> "a" [] OTHER -> c

LowerCase(text) == [i \in 1..Len(text) |-> LowerOf(text[i])]

\* Number ::= ( Digit+ | Digit+ '.' Digit* | Digit* '.' Digit+ ) ( ('e'|'E') Sign? Digit+ )?
parse_number(neg, text) ==
    LET ePos   == FirstIndex(text, {"e", "E"})
        mant   == IF ePos = 0 THEN text ELSE SubSeq(text, 1, ePos - 1)
        expo   == IF ePos = 0 THEN <<>> ELSE SubSeq(text, ePos + 1, Len(text))
        signed == expo # <<>> /\ expo[1] \in {"+", "-"}
        expDs  == IF signed THEN Tail(expo) ELSE expo
        dot    == FirstIndex(mant, {"."})
        intDs  == IF dot = 0 THEN mant ELSE SubSeq(mant, 1, dot - 1)
        fracDs == IF dot = 0 THEN <<>> ELSE SubSeq(mant, dot + 1, Len(mant))
        mantOk == AllDigits(intDs, 10) /\ AllDigits(fracDs, 10) /\ Len(intDs) + Len(fracDs) >= 1
        expOk  == ePos = 0 \/ (expDs # <<>> /\ AllDigits(expDs, 10))
        expVal == ExponentValue(expDs)
    IN  IF mantOk /\ expOk
        THEN round_f64(neg, DigitVals(intDs \o fracDs),
                       (IF signed /\ expo[1] = "-" THEN 0 - expVal ELSE expVal) - Len(fracDs))
        ELSE IF LowerCase(text) \in {<<"i", "n", "f">>, <<"i", "n", "f", "i", "n", "i", "t", "y">>}
        THEN Infinity(neg)
        ELSE IF LowerCase(text) = <<"n", "a", "n">> THEN NaN(neg)
        ELSE Err("ParseFloatError { kind: Invalid }")

\* Float ::= Sign? ( Number | 'inf' | 'infinity' | 'nan' ), the words in any case.
parse_f64(text) ==
    IF text = <<>> THEN Err("ParseFloatError { kind: Empty }")
    ELSE IF text[1] \in {"+", "-"} THEN parse_number(text[1] = "-", Tail(text))
    ELSE parse_number(FALSE, text)

\* An isize: sign and magnitude, the magnitude in binary without leading zero;
\* zero has no sign.
Integer(neg, bits) == [ok |-> TRUE, err |-> "", neg |-> neg /\ bits # <<>>, bits |-> bits]

IntErr(kind) == [ok |-> FALSE, err |-> "ParseIntError { kind: " \o kind \o " }", neg |-> FALSE, bits |-> <<>>]

BitsPerDigit(radix) == CASE radix = 2 -> 1 [] radix = 8 -> 3 [] radix = 16 -> 4

\* The digits written in binary, BitsPerDigit(radix) bits for each.
AllBits(ds, radix) ==
    [i \in 1..(Len(ds) * BitsPerDigit(radix)) |->
        BitOf(DigitVal(ds[((i - 1) \div BitsPerDigit(radix)) + 1]), BitsPerDigit(radix),
              (i - 1) % BitsPerDigit(radix))]

Magnitude(ds, radix) == DropLeadingZeros(AllBits(ds, radix))

\* The magnitude does not fit an isize (64 bits, two's complement).
Overflows(neg, bits) ==
    IF neg THEN Len(bits) > 64 \/ (Len(bits) = 64 /\ \E i \in 2..64 : bits[i] = 1)
    ELSE Len(bits) > 63

\* The digits before the first character that is not a digit of the radix.
ValidPrefix(ds, radix) ==
    IF AllDigits(ds, radix) THEN ds
    ELSE SubSeq(ds, 1, (CHOOSE i \in 1..Len(ds) :
                          DigitVal(ds[i]) >= radix /\ AllDigits(SubSeq(ds, 1, i - 1), radix)) - 1)

\* The digits are read from the left: an overflow among the digits before the
\* first invalid character is reported first.
from_digits(neg, ds, radix) ==
    IF Overflows(neg, Magnitude(ValidPrefix(ds, radix), radix))
    THEN IntErr(IF neg THEN "NegOverflow" ELSE "PosOverflow")
    ELSE IF ~AllDigits(ds, radix) THEN IntErr("InvalidDigit")
    ELSE Integer(neg, Magnitude(ds, radix))

\* isize::from_str_radix for the radices 2, 8 and 16.
from_str_radix(number, radix) ==
    IF number = <<>> THEN IntErr("Empty")
    ELSE IF number \in {<<"+">>, <<"-">>} THEN IntErr("InvalidDigit")
    ELSE IF number[1] \in {"+", "-"} THEN from_digits(number[1] = "-", Tail(number), radix)
    ELSE from_digits(FALSE, number, radix)

\* `as f64` on the isize: the nearest f64, ties to even.
as_f64(v) ==
    IF v.ok THEN nearest_f64(v.neg, v.bits, 0, FALSE) ELSE Err(v.err)

cast_f64(r) == [lx |-> r.lx, num |-> as_f64(r.num)]

\* Result::expect: on Err the panic payload is msg, ": " and the Debug text of the error.
expect(lx, v, msg) ==
    [lx |-> IF v.ok THEN lx ELSE raise(lx, msg \o ": " \o v.err), num |-> v]

finish_f64(lx, number) == expect(lx, parse_f64(number), "failed to parse number as f64")

finish_radix(r, radix, msg) == cast_f64(expect(r.lx, from_str_radix(r.number, radix), msg))

(***************************************************************************)
(* Numeric literals.                                                       *)
(***************************************************************************)
RECURSIVE number_loop(_, _, _)
number_loop(s, lx, number) ==
    LET c  == cur(s, lx)
        l1 == next(s, lx)
    IN  \* Len(number) >= 0 always holds: with it TLC evaluates the text read so
        \* far at every digit instead of all at once after the last one.
        CASE c = None -> [lx |-> lx, number |-> number]
          [] c # None /\ is_ascii_digit(c) /\ Len(number) >= 0 ->
                number_loop(s, commit(l1), Append(number, c))
          [] OTHER ->
        IF is_whitespace(c) THEN [lx |-> l1, number |-> number]
        ELSE IF c = "." THEN
            LET l2 == commit(l1)
                p  == peek(s, l2)
            IN  IF p = None
                THEN number_loop(s, push_error(l2, "InvalidOrUnexpectedToken", c),
                                 Append(number, c))
                ELSE IF ~is_ascii_digit(p) /\ p # "e" /\ p # "E"
                THEN number_loop(s, push_error(l2, "InvalidOrUnexpectedToken", p),
                                 Append(number, c))
                ELSE number_loop(s, l2, Append(number, c))
        ELSE IF c = "e" \/ c = "E" THEN
            LET l2 == commit(l1)
                c2 == cur(s, l2)
                l3 == next(s, l2)
            IN  IF c2 = "+" \/ c2 = "-" THEN
                    LET l4 == commit(l3)
                        p  == peek(s, l4)
                    IN  IF p # None /\ ~is_ascii_digit(p)
                        THEN number_loop(s, push_error(l4, "InvalidOrUnexpectedToken", p),
                                         number \o <<c, c2>>)
                        ELSE number_loop(s, l4, number \o <<c, c2>>)
                ELSE IF c2 # None /\ is_ascii_digit(c2)
                THEN number_loop(s, commit(l3), number \o <<c, c2>>)
                ELSE number_loop(s, push_error(l3, "InvalidOrUnexpectedToken", c),
                                 Append(number, c))
        ELSE number_loop(s, push_error(l1, "InvalidOrUnexpectedToken", c), number)

\* The conversion that follows the loop.
finish_number(r) == finish_f64(r.lx, r.number)

read_number(s, lx, head) ==
    LET c == cur(s, lx) IN
    IF c # None /\ ~is_ascii_digit(c) /\ c # "e" /\ c # "."
    THEN finish_f64(lx, <<head>>)
    ELSE finish_number(number_loop(s, lx, <<head>>))

is_binary_digit(c) == is_ascii_digit(c)

is_octal_digit(c) == is_ascii_digit(c) /\ c \in {"0", "1", "2", "3", "4", "5", "6"}

is_hex_digit(c) ==
    is_ascii_digit(c) \/ c \in {"a", "b", "c", "d", "e"} \/ c \in {"A", "B", "C", "D", "E"}

RECURSIVE radix_loop(_, _, _, _)
radix_loop(s, lx, number, radix) ==
    LET c  == cur(s, lx)
        l1 == next(s, lx)
        accepted == CASE radix = 2 -> is_binary_digit(c)
                      [] radix = 8 -> is_octal_digit(c)
                      [] OTHER -> is_hex_digit(c)
    IN  \* Len(number) >= 0 always holds: with it TLC evaluates the digits read so
        \* far at every iteration instead of all at once after the last one.
        CASE c = None -> [lx |-> lx, number |-> number]
          [] c # None /\ accepted /\ Len(number) >= 0 ->
                radix_loop(s, commit(l1), Append(number, c), radix)
          [] OTHER ->
                IF is_whitespace(c) THEN [lx |-> l1, number |-> number]
                ELSE IF c = "." THEN radix_loop(s, push_error(l1, "UnexpectedNumber", c), number, radix)
                ELSE radix_loop(s, push_error(l1, "InvalidOrUnexpectedToken", c), number, radix)

read_binary_number(s, lx) ==
    finish_radix(radix_loop(s, next(s, lx), <<>>, 2), 2, "failed to parse number as binary")

read_octal_number(s, lx) ==
    finish_radix(radix_loop(s, next(s, lx), <<>>, 8), 8, "failed to parse number as octal")

read_hex_number(s, lx) ==
    finish_radix(radix_loop(s, next(s, lx), <<>>, 16), 16, "failed to parse number as hex")

(***************************************************************************)
(* String literals.                                                        *)
(***************************************************************************)
\* Every escaped character passed through unchanged.
unescape_verbatim(next_char) == next_char

unescape(next_char) ==
    CASE next_char = "n" -> "\n"
      [] next_char = "r" -> "\r"
      [] next_char = "t" -> "\t"
      [] OTHER -> next_char

RECURSIVE string_loop(_, _, _, _, _)
string_loop(s, lx, start_quote, string, raw) ==
    LET c  == cur(s, lx)
        l1 == next(s, lx)
        c2 == cur(s, l1)
        l2 == next(s, l1)
    IN  IF c = None THEN [lx |-> lx, value |-> string, raw |-> raw]
        ELSE IF c = "\\" THEN
            IF c2 # None
            THEN string_loop(s, commit(l2), start_quote,
                             Append(string, unescape(c2)), raw \o <<c, c2>>)
            ELSE string_loop(s, commit(l1), start_quote, string, raw)
        ELSE IF c = start_quote THEN [lx |-> l1, value |-> string, raw |-> Append(raw, c)]
        ELSE string_loop(s, commit(l1), start_quote, Append(string, c), Append(raw, c))

read_string_literal(s, lx, start_quote) == string_loop(s, lx, start_quote, <<>>, <<start_quote>>)

(***************************************************************************)
(* Punctuators and operators: read_next_kind after the lead character has  *)
(* been consumed.  K pairs the lexer left behind with the TokenKind.       *)
(***************************************************************************)
K(lx, kind, sub) == [lx |-> lx, kind |-> Kind(kind, sub)]

read_single(s, lx, kind) == K(commit(lx), kind, "")

read_bang(s, lx) ==
    LET l0 == commit(lx) IN
    IF peek(s, l0) = "=" THEN
        LET l1 == commit(next(s, l0)) IN
        IF peek(s, l1) = "=" THEN K(commit(next(s, l1)), "BinaryOp", "NeNe")
        ELSE K(l1, "BinaryOp", "Ne")
    ELSE K(l0, "Bang", "")

read_plus(s, lx) ==
    LET l0 == commit(lx) IN
    IF peek(s, l0) = "=" THEN K(commit(next(s, l0)), "AssignOp", "AddAssign")
    ELSE IF peek(s, l0) = "+" THEN K(commit(next(s, l0)), "PlusPlus", "")
    ELSE K(l0, "BinaryOp", "Add")

read_minus(s, lx) ==
    LET l0 == commit(lx) IN
    IF peek(s, l0) = "-" THEN K(next(s, l0), "MinusMinus", "")
    ELSE IF peek(s, l0) = "=" THEN K(next(s, l0), "AssignOp", "SubAssign")
    ELSE K(l0, "BinaryOp", "Sub")

read_star(s, lx) ==
    LET l0 == commit(lx) IN
    IF peek(s, l0) = "=" THEN K(next(s, l0), "AssignOp", "MulAssign")
    ELSE K(l0, "BinaryOp", "Mul")

RECURSIVE line_comment_loop(_, _)
line_comment_loop(s, lx) ==
    LET c == cur(s, lx) IN
    IF c = None THEN lx
    ELSE IF is_line_terminator(c) THEN next(s, lx)
    ELSE line_comment_loop(s, next(s, lx))

RECURSIVE block_comment_loop(_, _)
block_comment_loop(s, lx) ==
    LET c  == cur(s, lx)
        l1 == next(s, lx)
    IN  IF c = None THEN lx
        ELSE IF c = "*" /\ peek(s, l1) = "/" THEN next(s, l1)
        ELSE block_comment_loop(s, l1)

read_slash(s, lx) ==
    LET c == cur(s, lx) IN
    IF c = "/" THEN K(commit(line_comment_loop(s, next(s, next(s, lx)))), "SingleLineComment", "")
    ELSE IF c = "*"
    THEN K(commit(block_comment_loop(s, next(s, next(s, lx)))), "MultiLineComment", "")
    ELSE IF c = "=" THEN K(commit(next(s, lx)), "AssignOp", "DivAssign")
    ELSE K(commit(lx), "BinaryOp", "Div")

read_percent(s, lx) ==
    LET l0 == commit(lx) IN
    IF peek(s, l0) = "=" THEN K(next(s, l0), "AssignOp", "ModAssign")
    ELSE K(l0, "BinaryOp", "Mod")

read_assign(s, lx) ==
    LET l0 == commit(lx) IN
    IF cur(s, l0) = ">" THEN K(commit(next(s, l0)), "Arrow", "")
    ELSE IF peek(s, l0) = "=" THEN
        LET l1 == commit(next(s, l0)) IN
        IF peek(s, l1) = "=" THEN K(commit(next(s, l1)), "BinaryOp", "Eq")
        ELSE K(l1, "BinaryOp", "EqEq")
    ELSE K(l0, "AssignOp", "Assign")

read_gt(s, lx) ==
    LET l0 == commit(lx) IN
    IF cur(s, l0) = "=" THEN K(commit(next(s, l0)), "BinaryOp", "Ge")
    ELSE IF peek(s, l0) = ">" THEN
        LET l1 == commit(next(s, l0)) IN
        IF peek(s, l1) = ">" THEN
            LET l2 == commit(next(s, l1)) IN
            IF peek(s, l2) = "="
            THEN K(commit(next(s, l2)), "AssignOp", "ZeroFillRightShiftAssign")
            ELSE K(l2, "BinaryOp", "ZeroFillRightShift")
        ELSE IF peek(s, l1) = "=" THEN K(commit(next(s, l1)), "AssignOp", "RightShiftAssign")
        ELSE K(l1, "BinaryOp", "RShift")
    ELSE K(l0, "BinaryOp", "Gt")

read_lt(s, lx) ==
    LET l0 == commit(lx) IN
    IF cur(s, l0) = "=" THEN K(commit(next(s, l0)), "BinaryOp", "Le")
    ELSE IF peek(s, l0) = "<" THEN K(commit(next(s, l0)), "BinaryOp", "LShift")
    ELSE K(l0, "BinaryOp", "Lt")

\* The '&' branch with its second character tested through peek.
read_amp_peek(s, lx) ==
    LET l0 == commit(lx) IN
    IF peek(s, l0) = "&" THEN K(commit(next(s, l0)), "BinaryOp", "LogicalAnd")
    ELSE IF peek(s, l0) = "=" THEN K(commit(next(s, l0)), "AssignOp", "BitAndAssign")
    ELSE K(l0, "BinaryOp", "BitAnd")

read_amp(s, lx) ==
    LET l0 == commit(lx) IN
    IF cur(s, l0) = "&" THEN K(commit(next(s, l0)), "BinaryOp", "LogicalAnd")
    ELSE IF cur(s, l0) = "=" THEN K(commit(next(s, l0)), "AssignOp", "BitAndAssign")
    ELSE K(l0, "BinaryOp", "BitAnd")

read_pipe(s, lx) ==
    LET l0 == commit(lx) IN
    IF cur(s, l0) = "|" THEN K(commit(next(s, l0)), "BinaryOp", "LogicalOr")
    ELSE IF cur(s, l0) = "=" THEN K(commit(next(s, l0)), "AssignOp", "BitOrAssign")
    ELSE K(l0, "BinaryOp", "BitOr")

read_caret(s, lx) ==
    LET l0 == commit(lx) IN
    IF peek(s, l0) = "=" THEN K(commit(next(s, l0)), "AssignOp", "BitXorAssign")
    ELSE K(l0, "BinaryOp", "BitXor")

(***************************************************************************)
(* read_next_kind, the digit and dot branches.                             *)
(***************************************************************************)
push_legacy(r, kind, start) ==
    IF r.lx.panic # "" THEN r
    ELSE [r EXCEPT !.lx = push_span_error(r.lx, kind, start - 1)]

legacy_decimal(s, lx, c) ==
    push_legacy(read_number(s, next(s, lx), c), "LegacyDecimalEscape", offset(lx))

legacy_octal(s, lx) ==
    push_legacy(read_octal_number(s, lx), "LegacyOctalLiteral", offset(lx))

invalid_zero(lx, c) ==
    [lx |-> push_error(lx, "InvalidOrUnexpectedToken", c), num |-> Norm(0, 0)]

read_zero(s, lx, c) ==
    LET n == cur(s, lx) IN
    CASE n \in {"b", "B"} -> read_binary_number(s, lx)
      [] n \in {"o", "O"} -> read_octal_number(s, lx)
      [] n \in {"x", "X"} -> read_hex_number(s, lx)
      [] n # None /\ is_whitespace(n) -> [lx |-> lx, num |-> Norm(0, 0)]
      [] n \in {"8", "9"} -> legacy_decimal(s, lx, n)
      [] n \in {"0", "1", "2", "3", "4", "5", "6", "7"} -> legacy_octal(s, lx)
      [] n = "." -> IF peek(s, lx) # None /\ is_ascii_digit(peek(s, lx))
                    THEN read_number(s, lx, "0")
                    ELSE invalid_zero(lx, c)
      [] OTHER -> invalid_zero(lx, c)

number_kind(r, lx) ==
    IF r.lx.panic # "" THEN [lx |-> r.lx, kind |-> Kind("Panic", "")]
    ELSE [lx |-> lx, kind |-> NumberKind(r.num)]

number_committed(r) == number_kind(r, commit(r.lx))

number_uncommitted(r) == number_kind(r, r.lx)

read_digit(s, lx, c) ==
    number_committed(IF c = "0" THEN read_zero(s, lx, c) ELSE read_number(s, lx, c))

read_dot(s, lx) ==
    IF peek(s, commit(lx)) # None /\ is_ascii_digit(peek(s, commit(lx)))
    THEN number_uncommitted(read_number(s, commit(lx), "."))
    ELSE K(commit(lx), "Dot", "")

string_kind(r) == [lx |-> commit(r.lx), kind |-> StringKind(r.value, r.raw)]

read_quote(s, lx, c) == string_kind(read_string_literal(s, lx, c))

\* The default branch recording a diagnostic for the character it rejects.
read_other_diagnosed(s, lx, c) ==
    IF is_ident_start(c) THEN read_identifier(s, lx, c)
    ELSE [lx |-> raise(push_error(commit(lx), "UnexpectedToken", c), c), kind |-> Kind("Panic", "")]

read_other(s, lx, c) ==
    IF is_ident_start(c) THEN read_identifier(s, lx, c)
    ELSE [lx |-> raise(commit(lx), c), kind |-> Kind("Panic", "")]

(***************************************************************************)
(* read_next_kind and read_next_token.                                     *)
(***************************************************************************)
\* A lead character that is looked at but not taken from the iterator.
consume_lead_stuck(s, lx) == IF cur(s, lx) = "(" THEN lx ELSE next(s, lx)

consume_lead(s, lx) == next(s, lx)

read_next_kind(s, lx0) ==
    LET c  == cur(s, lx0)
        lx == consume_lead(s, lx0)
    IN  CASE c = None -> K(commit(lx), "Eof", "")
          [] c = "'"  -> read_quote(s, lx, c)
          [] c = "\"" -> read_quote(s, lx, c)
          [] c = ")"  -> read_single(s, lx, "RParen")
          [] c = "("  -> read_single(s, lx, "LParen")
          [] c = "{"  -> read_single(s, lx, "LBrace")
          [] c = "}"  -> read_single(s, lx, "RBrace")
          [] c = "["  -> read_single(s, lx, "LBracket")
          [] c = "]"  -> read_single(s, lx, "RBracket")
          [] c = ":"  -> read_single(s, lx, "Colon")
          [] c = "!"  -> read_bang(s, lx)
          [] c = "?"  -> read_single(s, lx, "Question")
          [] c = ";"  -> read_single(s, lx, "Semicolon")
          [] c = ","  -> read_single(s, lx, "Comma")
          [] c = "+"  -> read_plus(s, lx)
          [] c = "-"  -> read_minus(s, lx)
          [] c = "*"  -> read_star(s, lx)
          [] c = "/"  -> read_slash(s, lx)
          [] c = "%"  -> read_percent(s, lx)
          [] c = "="  -> read_assign(s, lx)
          [] c = ">"  -> read_gt(s, lx)
          [] c = "<"  -> read_lt(s, lx)
          [] c = "&"  -> read_amp(s, lx)
          [] c = "|"  -> read_pipe(s, lx)
          [] c = "^"  -> read_caret(s, lx)
          [] c = "~"  -> read_single(s, lx, "Tilde")
          [] c \in Digits -> read_digit(s, lx, c)
          [] c = "."  -> read_dot(s, lx)
          [] OTHER    -> read_other(s, lx, c)

spanned(start, r) == [lx |-> r.lx, token |-> Token(r.kind, Span(start, r.lx.last_pos))]

token_from(s, l1) == spanned(offset(l1), read_next_kind(s, l1))

read_next_token(s, lx) == token_from(s, skip_whitespace(s, lx))

(***************************************************************************)
(* Lexer::lex: one read_next_token per step until Eof.                     *)
(***************************************************************************)
\* The token pushed before the Eof test.
lex_step_push_first(toks, token) ==
    [tokens |-> Append(toks, token), done |-> token.kind = "Eof"]

lex_step(toks, token) ==
    IF token.kind = "Eof" THEN [tokens |-> toks, done |-> TRUE]
    ELSE [tokens |-> Append(toks, token), done |-> FALSE]

RECURSIVE lex_loop(_, _, _)
lex_loop(s, r, toks) ==
    IF r.lx.panic # "" THEN [tokens |-> toks, errors |-> r.lx.errors, panic |-> r.lx.panic]
    ELSE IF lex_step(toks, r.token).done
    THEN [tokens |-> lex_step(toks, r.token).tokens, errors |-> r.lx.errors, panic |-> ""]
    ELSE lex_loop(s, read_next_token(s, r.lx), lex_step(toks, r.token).tokens)

lex(s) == lex_loop(s, read_next_token(s, NewLexer), <<>>)

Self == [pos |-> pos, last_pos |-> last_pos, errors |-> errors, panic |-> ""]

Advance(r, l) ==
    /\ tokens' = l.tokens
    /\ pos' = r.lx.pos
    /\ last_pos' = r.lx.last_pos
    /\ errors' = r.lx.errors
    /\ steps' = steps + 1
    /\ UNCHANGED source
    /\ IF r.lx.panic # ""
       THEN status' = "panicked" /\ panic' = r.lx.panic
       ELSE IF l.done THEN status' = "returned" /\ UNCHANGED panic
       ELSE UNCHANGED <<status, panic>>

Loop(r) == Advance(r, IF r.lx.panic # "" THEN [tokens |-> tokens, done |-> FALSE]
                       ELSE lex_step(tokens, r.token))

Scanned(r) == r.lx.panic = "" /\ r.token.kind # "Eof" /\ Loop(r)

Ended(r) == r.lx.panic = "" /\ r.token.kind = "Eof" /\ Loop(r)

Panicked(r) == r.lx.panic # "" /\ Loop(r)

Scan == status = "scanning" /\ Scanned(read_next_token(source, Self))

Finish == status = "scanning" /\ Ended(read_next_token(source, Self))

Abort == status = "scanning" /\ Panicked(read_next_token(source, Self))

Next == Scan \/ Finish \/ Abort

(***************************************************************************)
(* Source texts: every text of at most MaxLen characters over one of the   *)
(* alphabets.                                                              *)
(***************************************************************************)
SeqsUpTo(A, n) == UNION {[1..k -> A] : k \in 0..n}

AlphaMixed == {" ", "a", "1", "e", ".", "-", "(", "#"}

AlphaDecimal == {"1", "5", ".", "e", "E", "+", "-", " "}

AlphaOps == {"+", "-", "*", "%", "^", "=", "1", " ", "#"}

AlphaString == {"'", "\"", "\\", "n", "a", " ", "#"}

InitLexer ==
    /\ pos = NewLexer.pos
    /\ last_pos = NewLexer.last_pos
    /\ errors = NewLexer.errors
    /\ panic = NewLexer.panic
    /\ tokens = <<>>
    /\ status = "scanning"
    /\ steps = 0

AlphaRadix == {"0", "1", "7", "8", "b", "o", "x", ".", " ", "U+000B"}

AlphaCompare == {"=", "!", ">", "<", "&", "|", "a", " "}

AlphaComment == {"/", "*", "\n", "a", " ", "="}

AlphaIdent == {"i", "f", "a", "1", "-", " ", "U+00A0", "$", "U+200C"}

Alphabets == {AlphaMixed, AlphaDecimal, AlphaOps, AlphaString, AlphaRadix, AlphaCompare,
              AlphaComment, AlphaIdent}

Init ==
    /\ \E A \in Alphabets : \E k \in 0..MaxLen : source \in [1..k -> A]
    /\ InitLexer

Spec == Init /\ [][Next]_vars

InitDecimal == source \in SeqsUpTo(AlphaDecimal, MaxLen) /\ InitLexer

SpecDecimal == InitDecimal /\ [][Next]_vars

InitOps == source \in SeqsUpTo(AlphaOps, MaxLen) /\ InitLexer

SpecOps == InitOps /\ [][Next]_vars

InitString == source \in SeqsUpTo(AlphaString, MaxLen) /\ InitLexer

SpecString == InitString /\ [][Next]_vars

InitIdent == source \in SeqsUpTo(AlphaIdent, MaxLen) /\ InitLexer

SpecIdent == InitIdent /\ [][Next]_vars

AlphaKeyword == {"i", "f", "n", "d", "o", "t", "r", "u", "e", "I", "#"}

InitKeyword == source \in SeqsUpTo(AlphaKeyword, MaxLen) /\ InitLexer

SpecKeyword == InitKeyword /\ [][Next]_vars

InitComment == source \in SeqsUpTo(AlphaComment \cup {"#"}, MaxLenComment) /\ InitLexer

SpecComment == InitComment /\ [][Next]_vars

InitRadix == source \in SeqsUpTo(AlphaRadix, MaxLen) /\ InitLexer

SpecRadix == InitRadix /\ [][Next]_vars

AlphaHex == {"0", "x", "X", "1", "a", "E", "f", "F", " "}

InitCompare == source \in SeqsUpTo(AlphaCompare \cup {"#"}, MaxLen) /\ InitLexer

SpecCompare == InitCompare /\ [][Next]_vars

AlphaLogical == {"&", "|", "/", "=", "*", "a", " ", "#"}

InitLogical == source \in SeqsUpTo(AlphaLogical, MaxLen) /\ InitLexer

SpecLogical == InitLogical /\ [][Next]_vars

AlphaUnterminated == {"/", "*", "a", "'", "\\", "#"}

InitUnterminated == source \in SeqsUpTo(AlphaUnterminated, MaxLenUnterminated) /\ InitLexer

SpecUnterminated == InitUnterminated /\ [][Next]_vars

\* Hexadecimal literals with a body of up to MaxLenHex characters: a leading
\* digit, a run of zeros and a last character.
LongHexLiterals ==
    {<<"0", p, h>> \o [i \in 1..k |-> "0"] \o <<l>> :
        p \in {"x", "X"}, h \in {"1", "7", "8", "E"}, k \in 0..(MaxLenHex - 2),
        l \in {"0", "1", "e", "f"}}

InitHex ==
    /\ source \in SeqsUpTo(AlphaHex, MaxLen) \/ source \in LongHexLiterals
    /\ InitLexer

SpecHex == InitHex /\ [][Next]_vars

(***************************************************************************)
(* Properties.                                                             *)
(***************************************************************************)
IsPrefix(a, b) == Len(a) <= Len(b) /\ SubSeq(b, 1, Len(a)) = a

Covered(span) == SubSeq(source, span.start + 1, span.end)

AllWhitespace(s) == \A i \in 1..Len(s) : is_whitespace(s[i])

\* C1: a read_next_token call that records a diagnostic does not abort the scan:
\* the lexer goes on (to the next token or to the end of the input).
C1_DiagnosedCallDoesNotAbort ==
    [][Len(errors') > Len(errors) => status' # "panicked"]_vars

\* C2: every read_next_token call that does not end the scan consumes at least
\* one character, so the number of calls never exceeds the source length plus
\* one (the call that returns Eof), and while scanning it is at most the number
\* of characters consumed.
C2_ScanTerminates ==
    [][/\ status' = "scanning" => pos' > pos
       /\ status' = "scanning" => steps' <= pos'
       /\ pos' <= Len(source)
       /\ steps' <= Len(source) + 1]_vars

C2_Witness == status = "returned" /\ Len(source) >= 3 /\ steps = Len(source) + 1

\* C3: every token pushed by lex has span.start <= span.end.
C3_SpanStartBeforeEnd ==
    \A i \in 1..Len(tokens) : tokens[i].span.start <= tokens[i].span.end

\* C4: for consecutive tokens t, u of the token sequence, t.start <= u.start and
\* t.end <= u.start.
C4_SpansMonotone ==
    \A i \in 1..(Len(tokens) - 1) :
        /\ tokens[i].span.start <= tokens[i + 1].span.start
        /\ tokens[i].span.end <= tokens[i + 1].span.start

C4_Witness ==
    /\ status = "returned"
    /\ Len(tokens) >= 3
    /\ \E i \in 1..(Len(tokens) - 1) : tokens[i].span.end < tokens[i + 1].span.start
    /\ \E i \in 1..(Len(tokens) - 1) : tokens[i].span.end = tokens[i + 1].span.start

\* C5: between consecutive tokens t, u every source character at a position in
\* [t.end, u.start) is a whitespace character.
C5_OnlyWhitespaceBetweenTokens ==
    \A i \in 1..(Len(tokens) - 1) :
        \A p \in tokens[i].span.end..(tokens[i + 1].span.start - 1) :
            is_whitespace(source[p + 1])

\* C6: the token sequence never holds an Eof token; lex returns only with the
\* cursor at the end of the input; an empty or whitespace-only source returns no
\* token and no diagnostic.
C6_NoEofToken ==
    /\ \A i \in 1..Len(tokens) : tokens[i].kind # "Eof"
    /\ status = "returned" => pos = Len(source)
    /\ status = "returned" /\ AllWhitespace(source) => tokens = <<>> /\ errors = <<>>

C6_Witness ==
    /\ status = "returned"
    /\ Len(source) >= 2
    /\ AllWhitespace(source)
    /\ pos = Len(source)

\* C7: every step keeps the recorded diagnostics as a prefix of the new
\* sequence, and the sequence is ordered by span end.
C7_DiagnosticsAppendOnly ==
    [][/\ IsPrefix(errors, errors')
       /\ \A i \in 1..Len(errors') : \A j \in i..Len(errors') :
              errors'[i].span.end <= errors'[j].span.end]_vars

C7_Witness ==
    /\ status = "returned"
    /\ Len(errors) >= 2
    /\ errors[1].span.end < errors[Len(errors)].span.end
    /\ Len(tokens) >= 2

RECURSIVE DigitRun(_, _)
DigitRun(s, i) == IF At(s, i) \in Digits THEN 1 + DigitRun(s, i + 1) ELSE 0

\* NonZeroDigit Digit* ( '.' Digit+ )? ( ('e'|'E') ('+'|'-')? Digit+ )?
WellFormedDecimal(s) ==
    LET int  == DigitRun(s, 1)
        i1   == int + 1
        frac == IF At(s, i1) = "." THEN DigitRun(s, i1 + 1) ELSE 0
        i2   == IF At(s, i1) = "." THEN i1 + 1 + frac ELSE i1
        i3   == IF At(s, i2 + 1) \in {"+", "-"} THEN i2 + 2 ELSE i2 + 1
        ex   == IF At(s, i2) \in {"e", "E"} THEN DigitRun(s, i3) ELSE 0
        i4   == IF At(s, i2) \in {"e", "E"} THEN i3 + ex ELSE i2
    IN  /\ int >= 1
        /\ s[1] # "0"
        /\ At(s, i1) = "." => frac >= 1
        /\ At(s, i2) \in {"e", "E"} => ex >= 1
        /\ i4 = Len(s) + 1

\* C8: a source that is a well-formed decimal literal starting with a non-zero
\* digit is lexed without abort into exactly one Number token whose value is the
\* value of the literal text, and no diagnostic is recorded.
C8_DecimalLiteral ==
    WellFormedDecimal(source) =>
        /\ status # "panicked"
        /\ status = "returned" =>
              /\ Len(tokens) = 1
              /\ tokens[1].kind = "Number"
              /\ tokens[1].num = parse_f64(source)
              /\ errors = <<>>

Leads == {"+", "-", "*", "%", "^"}

CompoundOf(c) ==
    CASE c = "+" -> "AddAssign" [] c = "-" -> "SubAssign" [] c = "*" -> "MulAssign"
      [] c = "%" -> "ModAssign" [] c = "^" -> "BitXorAssign"

SingleOf(c) ==
    CASE c = "+" -> "Add" [] c = "-" -> "Sub" [] c = "*" -> "Mul"
      [] c = "%" -> "Mod" [] c = "^" -> "BitXor"

RECURSIVE NextNonWhitespace(_, _)
NextNonWhitespace(s, p) ==
    IF At(s, p + 1) # None /\ is_whitespace(At(s, p + 1)) THEN NextNonWhitespace(s, p + 1) ELSE p

\* C9: a token that starts at a lead c in {+, -, *, %, ^} is the compound
\* assignment when `=` follows c, PlusPlus for `++`, MinusMinus for `--`, each over
\* exactly two characters; otherwise it is the one-character operator over one
\* character and the next token starts at the following character (after
\* whitespace).
C9_ArithmeticOperators ==
    \A i \in 1..Len(tokens) :
        LET t  == tokens[i]
            st == t.span.start
            c  == At(source, st + 1)
            n  == At(source, st + 2)
        IN  c \in Leads =>
              IF n = "="
              THEN t.kind = "AssignOp" /\ t.sub = CompoundOf(c) /\ t.span = Span(st, st + 2)
              ELSE IF c = "+" /\ n = "+" THEN t.kind = "PlusPlus" /\ t.span = Span(st, st + 2)
              ELSE IF c = "-" /\ n = "-" THEN t.kind = "MinusMinus" /\ t.span = Span(st, st + 2)
              ELSE /\ t.kind = "BinaryOp"
                   /\ t.sub = SingleOf(c)
                   /\ t.span = Span(st, st + 1)
                   /\ i < Len(tokens) =>
                         tokens[i + 1].span.start = NextNonWhitespace(source, st + 1)

\* C10: the raw text of every String token is the source substring its span
\* covers.
C10_RawIsSourceSubstring ==
    \A i \in 1..Len(tokens) :
        tokens[i].kind = "String" => tokens[i].raw = Covered(tokens[i].span)

RECURSIVE ClosingQuote(_, _, _)
ClosingQuote(s, i, q) ==
    IF i > Len(s) THEN 0
    ELSE IF s[i] = "\\" THEN ClosingQuote(s, i + 2, q)
    ELSE IF s[i] = q THEN i
    ELSE ClosingQuote(s, i + 1, q)

Escaped(c) ==
    CASE c = "n" -> "\n" [] c = "r" -> "\r" [] c = "t" -> "\t" [] OTHER -> c

RECURSIVE Decoded(_)
Decoded(body) ==
    IF body = <<>> THEN <<>>
    ELSE IF body[1] = "\\" /\ Len(body) >= 2
    THEN <<Escaped(body[2])>> \o Decoded(SubSeq(body, 3, Len(body)))
    ELSE <<body[1]>> \o Decoded(Tail(body))

\* C11: a String token opened by a quote q whose first unescaped q is at hand
\* ends right after that q; raw is the source text from the opening to that
\* closing quote and value is the body between them with every escape resolved.
C11_StringEndsAtUnescapedQuote ==
    \A i \in 1..Len(tokens) :
        LET t     == tokens[i]
            st    == t.span.start
            close == ClosingQuote(source, st + 2, source[st + 1])
        IN  t.kind = "String" /\ close # 0 =>
              /\ source[st + 1] \in {"'", "\""}
              /\ t.span.end = close
              /\ t.raw = SubSeq(source, st + 1, close)
              /\ t.value = Decoded(SubSeq(source, st + 2, close - 1))

C11_Witness ==
    /\ status = "returned"
    /\ \E i \in 1..Len(tokens) :
          /\ tokens[i].kind = "String"
          /\ Len(tokens[i].raw) = 4
          /\ tokens[i].raw[2] = "\\"
          /\ tokens[i].raw[3] \in {"n", tokens[i].raw[1]}
          /\ tokens[i].raw[4] = tokens[i].raw[1]
          /\ Len(tokens[i].value) = 1

RECURSIVE RunEnd(_, _)
RunEnd(s, i) ==
    IF i > Len(s) \/ is_whitespace(s[i]) THEN i - 1 ELSE RunEnd(s, i + 1)

PartsOf(run) == SelectSeq(run, is_ident_part)

Offending(run) == {j \in 1..Len(run) : ~is_ident_part(run[j])}

LastPart(run) == CHOOSE j \in 1..Len(run) :
    is_ident_part(run[j]) /\ \A k \in (j + 1)..Len(run) : ~is_ident_part(run[k])

\* C12: the first call on an identifier-like run (identifier start up to the
\* next whitespace or the end of input) yields exactly one Word token whose
\* text is the run's identifier-part characters in order and whose span ends
\* after the last of them, with one UnexpectedToken per other character.
C12_IdentifierRunIsOneWord ==
    steps = 1 /\ Len(source) > 0 /\ is_ident_start(source[1]) =>
        LET run == SubSeq(source, 1, RunEnd(source, 1)) IN
        /\ Len(tokens) = 1
        /\ tokens[1].kind = "Word"
        /\ tokens[1].value = PartsOf(run)
        /\ tokens[1].span = Span(0, LastPart(run))
        /\ Len(errors) = Cardinality(Offending(run))
        /\ \A j \in 1..Len(errors) : errors[j].kind = "UnexpectedToken"

ReservedOverAlphaKeyword ==
    {<<"i", "f">>, <<"i", "n">>, <<"d", "o">>, <<"f", "o", "r">>}

\* C13: a Word token is Keyword exactly when its text is, case-sensitively, a
\* reserved word; every other text (`true` included) is Identifier; the token
\* carries the exact text of its run, and WordKind True/False/Null never occur.
C13_KeywordIffReservedWord ==
    \A i \in 1..Len(tokens) :
        LET t   == tokens[i]
            run == SubSeq(source, t.span.start + 1, RunEnd(source, t.span.start + 1))
        IN  t.kind = "Word" =>
              /\ t.sub \in {"Keyword", "Identifier"}
              /\ t.sub = "Keyword" <=> t.value \in ReservedOverAlphaKeyword
              /\ t.value = PartsOf(run)

C13_Witness ==
    /\ status = "returned"
    /\ \E i \in 1..Len(tokens) :
          /\ tokens[i].kind = "Word"
          /\ tokens[i].sub = "Identifier"
          /\ tokens[i].value = <<"t", "r", "u", "e">>

StartsWith(s, a, b) == Len(s) >= 2 /\ s[1] = a /\ s[2] = b

LineTerminators == {"\n", "\r", "U+2028", "U+2029"}

\* Position right after a `//` comment opened at the start of s.
LineCommentEnd(s) ==
    LET T == {i \in 3..Len(s) : s[i] \in LineTerminators} IN
    IF T = {} THEN Len(s) ELSE CHOOSE i \in T : \A j \in T : i <= j

\* C14: the first call on a source opening with `//` yields one
\* SingleLineComment token that runs through the first line terminator after
\* the `//` (or to the end of input), and leaves the cursor right there, so
\* that what follows the terminator is lexed next.
C14_LineCommentEndsAtTerminator ==
    steps = 1 /\ StartsWith(source, "/", "/") =>
        /\ Len(tokens) = 1
        /\ tokens[1].kind = "SingleLineComment"
        /\ tokens[1].span = Span(0, LineCommentEnd(source))
        /\ pos = LineCommentEnd(source)

\* Indices of a `*` immediately followed by `/` after the opening `/*`.
BlockClosers(s) == {i \in 3..(Len(s) - 1) : s[i] = "*" /\ s[i + 1] = "/"}

BlockCommentEnd(s) == 1 + CHOOSE i \in BlockClosers(s) : \A j \in BlockClosers(s) : i <= j

\* C15: the first call on a source opening with `/*` that holds a closing
\* `*/` yields one MultiLineComment token whose span ends right after the
\* first such `/`, with the cursor right there and nothing more consumed.
C15_BlockCommentEndsAtFirstCloser ==
    steps = 1 /\ StartsWith(source, "/", "*") /\ BlockClosers(source) # {} =>
        /\ Len(tokens) = 1
        /\ tokens[1].kind = "MultiLineComment"
        /\ tokens[1].span = Span(0, BlockCommentEnd(source))
        /\ pos = BlockCommentEnd(source)

DigitTable ==
    ("0" :> 0) @@ ("1" :> 1) @@ ("2" :> 2) @@ ("3" :> 3) @@ ("4" :> 4) @@
    ("5" :> 5) @@ ("6" :> 6) @@ ("7" :> 7) @@ ("8" :> 8) @@ ("9" :> 9) @@
    ("a" :> 10) @@ ("b" :> 11) @@ ("c" :> 12) @@ ("d" :> 13) @@ ("e" :> 14) @@
    ("f" :> 15) @@ ("A" :> 10) @@ ("B" :> 11) @@ ("C" :> 12) @@ ("D" :> 13) @@
    ("E" :> 14) @@ ("F" :> 15)

RECURSIVE RadixValue(_, _)
RadixValue(ds, radix) ==
    IF ds = <<>> THEN 0
    ELSE RadixValue(SubSeq(ds, 1, Len(ds) - 1), radix) * radix + DigitTable[ds[Len(ds)]]

\* The source is exactly `0`, a radix letter of P, and a non-empty body over B.
PrefixedLiteral(s, P, B) ==
    Len(s) >= 3 /\ s[1] = "0" /\ s[2] \in P /\ \A i \in 3..Len(s) : s[i] \in B

Body(s) == SubSeq(s, 3, Len(s))

OneNumber(v) ==
    /\ status = "returned"
    /\ Len(tokens) = 1
    /\ tokens[1].kind = "Number"
    /\ tokens[1].num = Norm(v, 0)

IsBinary(c) == c \in {"0", "1"}

\* C16: for a binary literal whose body is made of decimal digits with at
\* least one 0/1 among them, only the 0/1 digits are converted: the scan
\* returns one Number token with their base-2 value, and records no
\* diagnostic when the whole body is 0/1.
C16_BinaryAccumulatesOnlyBits ==
    /\ status # "scanning"
    /\ PrefixedLiteral(source, {"b", "B"}, Digits)
    /\ SelectSeq(Body(source), IsBinary) # <<>>
    => /\ OneNumber(RadixValue(SelectSeq(Body(source), IsBinary), 2))
       /\ (\A i \in 3..Len(source) : IsBinary(source[i])) => errors = <<>>

\* C17: an octal literal `0o`/`0O` whose body is a non-empty run of digits
\* 0-7 yields one Number token with the base-8 value of the run and records
\* no diagnostic.
C17_OctalAcceptsZeroToSeven ==
    /\ status # "scanning"
    /\ PrefixedLiteral(source, {"o", "O"}, {"0", "1", "2", "3", "4", "5", "6", "7"})
    => OneNumber(RadixValue(Body(source), 8)) /\ errors = <<>>

HexAccepted == Digits \cup {"a", "b", "c", "d", "e"} \cup {"A", "B", "C", "D", "E"}

IsHexAccepted(c) == c \in HexAccepted

IsF(c) == c \in {"f", "F"}

\* The accepted digits written in binary, four bits for each.
HexBits(ds) ==
    [i \in 1..(4 * Len(ds)) |->
        (DigitTable[ds[((i - 1) \div 4) + 1]] \div 2^(3 - ((i - 1) % 4))) % 2]

\* The base-16 value of the digits as a Number value: the f64 nearest to it.
HexNumber(ds) == nearest_f64(FALSE, DropLeadingZeros(HexBits(ds)), 0, FALSE)

\* C18: for a hexadecimal literal whose body is made of the digits 0-9, a-e,
\* A-E and of f/F, every f/F records one InvalidOrUnexpectedToken naming it
\* and nothing else is recorded; when the body holds an accepted digit the
\* scan returns one Number token whose value is the base-16 value of the
\* accepted digits alone, however long the run.
C18_HexAcceptsUpToE ==
    /\ status # "scanning"
    /\ PrefixedLiteral(source, {"x", "X"}, HexAccepted \cup {"f", "F"})
    => /\ Len(errors) = Len(SelectSeq(Body(source), IsF))
       /\ \A j \in 1..Len(errors) :
            /\ errors[j].kind = "InvalidOrUnexpectedToken"
            /\ errors[j].ch = SelectSeq(Body(source), IsF)[j]
       /\ SelectSeq(Body(source), IsHexAccepted) # <<>> =>
            /\ status = "returned"
            /\ Len(tokens) = 1
            /\ tokens[1].kind = "Number"
            /\ tokens[1].num = HexNumber(SelectSeq(Body(source), IsHexAccepted))

\* Value of the fraction `.d1..dn` as m * 10^e.
FractionOf(ds) == Norm(RadixValue(ds, 10), 0 - Len(ds))

\* C19: a source made of `.` and one or more digits yields one Number token
\* with the value of the fraction over the full span; the first call on a
\* `.` followed by a non-digit or by the end of input yields Dot with a
\* one-character span.
C19_DotDigitStartsNumber ==
    /\ (/\ status # "scanning"
        /\ Len(source) >= 2
        /\ source[1] = "."
        /\ \A i \in 2..Len(source) : source[i] \in Digits)
       => /\ status = "returned"
          /\ Len(tokens) = 1
          /\ tokens[1].kind = "Number"
          /\ tokens[1].num = FractionOf(Tail(source))
          /\ tokens[1].span = Span(0, Len(source))
    /\ (/\ steps = 1
        /\ Len(source) >= 1
        /\ source[1] = "."
        /\ (Len(source) = 1 \/ source[2] \notin Digits))
       => /\ Len(tokens) = 1
          /\ tokens[1].kind = "Dot"
          /\ tokens[1].span = Span(0, 1)

LegacyDecimalLength(s) ==
    IF \E i \in 1..Len(s) : s[i] \notin Digits
    THEN (CHOOSE i \in 1..Len(s) : s[i] \notin Digits /\ \A j \in 1..(i - 1) : s[j] \in Digits) - 1
    ELSE Len(s)

\* The source opens with `0`, then 8 or 9, then decimal digits, and the
\* literal is ended by whitespace or by the end of input.
LegacyDecimalLiteral(s) ==
    /\ Len(s) >= 2
    /\ s[1] = "0"
    /\ s[2] \in {"8", "9"}
    /\ LegacyDecimalLength(s) < Len(s) => is_whitespace(s[LegacyDecimalLength(s) + 1])

\* C20: the first call on a literal `0`, 8 or 9, further decimal digits
\* records exactly one diagnostic, LegacyDecimalEscape, spanning from the
\* leading `0` to the end of the number, and yields one Number token with
\* the decimal value of the digits.
C20_LegacyDecimalEscape ==
    steps = 1 /\ LegacyDecimalLiteral(source) =>
        /\ Len(errors) = 1
        /\ errors[1].kind = "LegacyDecimalEscape"
        /\ errors[1].span = Span(0, LegacyDecimalLength(source))
        /\ Len(tokens) = 1
        /\ tokens[1].kind = "Number"
        /\ tokens[1].num = Norm(RadixValue(SubSeq(source, 1, LegacyDecimalLength(source)), 10), 0)

OctalDigits == {"0", "1", "2", "3", "4", "5", "6", "7"}

\* The source opens with `0` and one or more digits 0-7, and the literal is
\* ended by whitespace or by the end of input.
LegacyOctalLiteral(s) ==
    /\ Len(s) >= 2
    /\ s[1] = "0"
    /\ \A i \in 2..LegacyDecimalLength(s) : s[i] \in OctalDigits
    /\ LegacyDecimalLength(s) >= 2
    /\ LegacyDecimalLength(s) < Len(s) => is_whitespace(s[LegacyDecimalLength(s) + 1])

\* C21: the first call on a literal `0` followed by digits 0-7 does not
\* abort; it records exactly one diagnostic, LegacyOctalLiteral, and yields
\* one Number token with the base-8 value of the digits after the `0`.
C21_LegacyOctalLiteral ==
    steps = 1 /\ LegacyOctalLiteral(source) =>
        /\ status # "panicked"
        /\ Len(errors) = 1
        /\ errors[1].kind = "LegacyOctalLiteral"
        /\ Len(tokens) = 1
        /\ tokens[1].kind = "Number"
        /\ tokens[1].num = Norm(RadixValue(SubSeq(source, 2, LegacyDecimalLength(source)), 8), 0)

\* C22: the first call on a `0` that ends the input or is followed by a
\* whitespace character yields Number(0) with the span [0,1) and records no
\* diagnostic.
C22_LoneZero ==
    /\ steps = 1
    /\ Len(source) >= 1
    /\ source[1] = "0"
    /\ (Len(source) = 1 \/ is_whitespace(source[2]))
    => /\ Len(tokens) = 1
       /\ tokens[1].kind = "Number"
       /\ tokens[1].num = Norm(0, 0)
       /\ tokens[1].span = Span(0, 1)
       /\ errors = <<>>

\* The source is the operator op alone, or op followed by one space.
OperatorAlone(s, op) == s = op \/ s = Append(op, " ")

\* The first call on the operator op alone yields the one token kind(sub)
\* whose span covers exactly the characters of op.
YieldsOperator(op, kind, sub) ==
    steps = 1 /\ OperatorAlone(source, op) =>
        /\ Len(tokens) = 1
        /\ tokens[1].kind = kind
        /\ tokens[1].sub = sub
        /\ tokens[1].span = Span(0, Len(op))

\* C23: `=>` is Arrow, `==` is BinaryOp(Eq), `===` is BinaryOp(EqEq), `!=` is
\* BinaryOp(Ne), `!==` is BinaryOp(NeNe), a lone `=` is AssignOp(Assign) and
\* a lone `!` is Bang, each one token spanning exactly the operator.
C23_EqualityOperators ==
    /\ YieldsOperator(<<"=", ">">>, "Arrow", "")
    /\ YieldsOperator(<<"=", "=">>, "BinaryOp", "Eq")
    /\ YieldsOperator(<<"=", "=", "=">>, "BinaryOp", "EqEq")
    /\ YieldsOperator(<<"!", "=">>, "BinaryOp", "Ne")
    /\ YieldsOperator(<<"!", "=", "=">>, "BinaryOp", "NeNe")
    /\ YieldsOperator(<<"=">>, "AssignOp", "Assign")
    /\ YieldsOperator(<<"!">>, "Bang", "")

\* C24: `>=` is Ge, `>>>=` ZeroFillRightShiftAssign, `>>>` ZeroFillRightShift,
\* `>>=` RightShiftAssign, `>>` RShift, a lone `>` Gt, `<=` Le, `<<` LShift
\* and a lone `<` Lt, each one token spanning exactly the operator.
C24_RelationalAndShiftOperators ==
    /\ YieldsOperator(<<">", "=">>, "BinaryOp", "Ge")
    /\ YieldsOperator(<<">", ">", ">", "=">>, "AssignOp", "ZeroFillRightShiftAssign")
    /\ YieldsOperator(<<">", ">", ">">>, "BinaryOp", "ZeroFillRightShift")
    /\ YieldsOperator(<<">", ">", "=">>, "AssignOp", "RightShiftAssign")
    /\ YieldsOperator(<<">", ">">>, "BinaryOp", "RShift")
    /\ YieldsOperator(<<">">>, "BinaryOp", "Gt")
    /\ YieldsOperator(<<"<", "=">>, "BinaryOp", "Le")
    /\ YieldsOperator(<<"<", "<">>, "BinaryOp", "LShift")
    /\ YieldsOperator(<<"<">>, "BinaryOp", "Lt")

\* The two-character operators of the '&', '|' and '/' branches.
LogicalPairs ==
    {<<"&", "&", "BinaryOp", "LogicalAnd">>, <<"&", "=", "AssignOp", "BitAndAssign">>,
     <<"|", "|", "BinaryOp", "LogicalOr">>, <<"|", "=", "AssignOp", "BitOrAssign">>,
     <<"/", "=", "AssignOp", "DivAssign">>}

LogicalSingles ==
    {<<"&", "BinaryOp", "BitAnd">>, <<"|", "BinaryOp", "BitOr">>, <<"/", "BinaryOp", "Div">>}

\* The token expected at position p (0-based) of s, as <<kind, sub, length>>.
LogicalExpected(s, p) ==
    IF p + 2 <= Len(s) /\ \E q \in LogicalPairs : q[1] = s[p + 1] /\ q[2] = s[p + 2]
    THEN LET q == CHOOSE q \in LogicalPairs : q[1] = s[p + 1] /\ q[2] = s[p + 2]
         IN  <<q[3], q[4], 2>>
    ELSE LET q == CHOOSE q \in LogicalSingles : q[1] = s[p + 1]
         IN  <<q[2], q[3], 1>>

OpensComment(s, p) == p + 2 <= Len(s) /\ s[p + 1] = "/" /\ s[p + 2] \in {"/", "*"}

\* C25: a call that starts on `&`, `|` or `/` (not opening a comment) yields
\* the two-character operator when the second character follows at once,
\* spanning two characters, and otherwise BitAnd, BitOr or Div spanning one
\* character; the cursor is left right after the token.
C25_LogicalAndDivOperators ==
    [][/\ status = "scanning"
       /\ pos < Len(source)
       /\ source[pos + 1] \in {"&", "|", "/"}
       /\ ~OpensComment(source, pos)
       => /\ Len(tokens') = Len(tokens) + 1
          /\ tokens'[Len(tokens')].kind = LogicalExpected(source, pos)[1]
          /\ tokens'[Len(tokens')].sub = LogicalExpected(source, pos)[2]
          /\ tokens'[Len(tokens')].span = Span(pos, pos + LogicalExpected(source, pos)[3])
          /\ pos' = pos + LogicalExpected(source, pos)[3]]_vars

C25_Witness ==
    /\ status = "returned"
    /\ Len(tokens) = 3
    /\ tokens[1].sub = "LogicalAnd"
    /\ tokens[2].sub = "Div"
    /\ tokens[2].span = Span(2, 3)
    /\ tokens[3].kind = "Word"

OperatorSpellings ==
    {<<"RParen", "", <<")">>>>,
     <<"LParen", "", <<"(">>>>,
     <<"LBrace", "", <<"{">>>>,
     <<"RBrace", "", <<"}">>>>,
     <<"LBracket", "", <<"[">>>>,
     <<"RBracket", "", <<"]">>>>,
     <<"Colon", "", <<":">>>>,
     <<"Bang", "", <<"!">>>>,
     <<"Question", "", <<"?">>>>,
     <<"Semicolon", "", <<";">>>>,
     <<"Comma", "", <<",">>>>,
     <<"Tilde", "", <<"~">>>>,
     <<"Dot", "", <<".">>>>,
     <<"Arrow", "", <<"=", ">">>>>,
     <<"PlusPlus", "", <<"+", "+">>>>,
     <<"MinusMinus", "", <<"-", "-">>>>,
     <<"AssignOp", "Assign", <<"=">>>>,
     <<"AssignOp", "AddAssign", <<"+", "=">>>>,
     <<"AssignOp", "SubAssign", <<"-", "=">>>>,
     <<"AssignOp", "MulAssign", <<"*", "=">>>>,
     <<"AssignOp", "DivAssign", <<"/", "=">>>>,
     <<"AssignOp", "ModAssign", <<"%", "=">>>>,
     <<"AssignOp", "BitOrAssign", <<"|", "=">>>>,
     <<"AssignOp", "BitXorAssign", <<"^", "=">>>>,
     <<"AssignOp", "BitAndAssign", <<"&", "=">>>>,
     <<"AssignOp", "ZeroFillRightShiftAssign", <<">", ">", ">", "=">>>>,
     <<"AssignOp", "RightShiftAssign", <<">", ">", "=">>>>,
     <<"AssignOp", "LeftShiftAssign", <<"<", "<", "=">>>>,
     <<"BinaryOp", "Lt", <<"<">>>>,
     <<"BinaryOp", "Le", <<"<", "=">>>>,
     <<"BinaryOp", "Gt", <<">">>>>,
     <<"BinaryOp", "Ge", <<">", "=">>>>,
     <<"BinaryOp", "LShift", <<"<", "<">>>>,
     <<"BinaryOp", "RShift", <<">", ">">>>>,
     <<"BinaryOp", "ZeroFillRightShift", <<">", ">", ">">>>>,
     <<"BinaryOp", "Eq", <<"=", "=">>>>,
     <<"BinaryOp", "EqEq", <<"=", "=", "=">>>>,
     <<"BinaryOp", "Ne", <<"!", "=">>>>,
     <<"BinaryOp", "NeNe", <<"!", "=", "=">>>>,
     <<"BinaryOp", "Add", <<"+">>>>,
     <<"BinaryOp", "Sub", <<"-">>>>,
     <<"BinaryOp", "Mul", <<"*">>>>,
     <<"BinaryOp", "Div", <<"/">>>>,
     <<"BinaryOp", "Mod", <<"%">>>>,
     <<"BinaryOp", "BitOr", <<"|">>>>,
     <<"BinaryOp", "BitXor", <<"^">>>>,
     <<"BinaryOp", "BitAnd", <<"&">>>>,
     <<"BinaryOp", "LogicalOr", <<"|", "|">>>>,
     <<"BinaryOp", "LogicalAnd", <<"&", "&">>>>}

IsOperatorToken(t) == \E q \in OperatorSpellings : q[1] = t.kind /\ q[2] = t.sub

SpellingOf(t) == (CHOOSE q \in OperatorSpellings : q[1] = t.kind /\ q[2] = t.sub)[3]

\* C26: whenever a call returns a punctuator or operator token, the source
\* characters of its span spell exactly that operator and the cursor stands
\* at the end of the span: the lookahead has consumed no other character.
C26_LookaheadNeverSwallows ==
    [][/\ status = "scanning"
       /\ Len(tokens') = Len(tokens) + 1
       /\ IsOperatorToken(tokens'[Len(tokens')])
       => /\ SubSeq(source, tokens'[Len(tokens')].span.start + 1, tokens'[Len(tokens')].span.end)
               = SpellingOf(tokens'[Len(tokens')])
          /\ pos' = tokens'[Len(tokens')].span.end]_vars

ConversionMessages ==
    {"failed to parse number as f64", "failed to parse number as binary",
     "failed to parse number as octal", "failed to parse number as hex"}

ConversionErrors ==
    {"ParseFloatError { kind: Empty }", "ParseFloatError { kind: Invalid }",
     "ParseIntError { kind: Empty }", "ParseIntError { kind: InvalidDigit }",
     "ParseIntError { kind: PosOverflow }", "ParseIntError { kind: NegOverflow }"}

\* The panic payloads of a failed conversion: the message, ": " and the error.
ConversionFailures == {m \o ": " \o e : m \in ConversionMessages, e \in ConversionErrors}

\* C27: no scan is aborted by a numeric conversion: the decimal text always
\* parses as a float and the binary, octal and hexadecimal digit strings are
\* always non-empty and valid in their base.
C27_ConversionNeverFails == panic \notin ConversionFailures

KnownLeads ==
    Digits \cup LowerLetters \cup UpperLetters \cup
    {"$", "_", "'", "\"", ")", "(", "{", "}", "[", "]", ":", "!", "?", ";", ",", "+", "-",
     "*", "/", "%", "=", ">", "<", "&", "|", "^", "~", "."}

\* The character on which the next call starts, after the whitespace.
NextLead == At(source, NextNonWhitespace(source, pos) + 1)

\* C28: a call whose lead character is outside every known class aborts the
\* scan at that character: the scan never returns, the panic names the
\* character, and the call adds neither a diagnostic nor a token.
C28_UnknownLeadAborts ==
    [][/\ status = "scanning"
       /\ NextLead # None
       /\ NextLead \notin KnownLeads
       => /\ status' = "panicked"
          /\ panic' = NextLead
          /\ errors' = errors
          /\ tokens' = tokens]_vars

C28_Witness ==
    /\ status = "panicked"
    /\ panic = "#"
    /\ Len(tokens) >= 1
    /\ Len(errors) >= 1

UnterminatedString(s) ==
    Len(s) >= 1 /\ s[1] \in {"'", "\""} /\ ClosingQuote(s, 2, s[1]) = 0

UnterminatedBlockComment(s) == StartsWith(s, "/", "*") /\ BlockClosers(s) = {}

\* The first call has emitted the one token of this kind over the whole
\* input and has recorded no diagnostic.
RunsToEndUndiagnosed(kind) ==
    /\ Len(tokens) = 1
    /\ tokens[1].kind = kind
    /\ tokens[1].span = Span(0, Len(source))
    /\ errors = <<>>

\* C29: when the input ends before the closing quote of a string literal or
\* before the closing `*/` of a block comment, the first call still emits the
\* String or MultiLineComment token, spanning to the end of input, and
\* records no diagnostic.
C29_UnterminatedNotDiagnosed ==
    /\ steps = 1 /\ UnterminatedString(source) => RunsToEndUndiagnosed("String")
    /\ steps = 1 /\ UnterminatedBlockComment(source) => RunsToEndUndiagnosed("MultiLineComment")

\* The source opens with a literal made of the characters of S (its first
\* character in F) that is ended by a whitespace character.
EndedByWhitespace(s, F, S) ==
    /\ Len(s) >= 2
    /\ s[1] \in F
    /\ RunEnd(s, 1) < Len(s)
    /\ \A i \in 1..RunEnd(s, 1) : s[i] \in S

IdentStarts == LowerLetters \cup UpperLetters \cup {"$", "_"}

\* C30: the first call on an identifier or a decimal literal ended by a
\* whitespace character yields a Word or Number token whose span ends right
\* after the last character of the literal, whatever its length.
C30_WhitespaceOutsideSpan ==
    /\ steps = 1 /\ EndedByWhitespace(source, IdentStarts, IdentStarts \cup Digits \cup {"U+200C"})
       => tokens[1].kind = "Word" /\ tokens[1].span = Span(0, RunEnd(source, 1))
    /\ steps = 1 /\ EndedByWhitespace(source, Digits \ {"0"}, Digits)
       => tokens[1].kind = "Number" /\ tokens[1].span = Span(0, RunEnd(source, 1))
====
